---- MODULE Spec2Model ----
(***************************************************************************)
(* Model of slow-down-bot: the audio conversion pipeline                   *)
(* (processing_audio / slowing_down_task run through the task queue), the  *)
(* match store it fills, and the share / report / like callback handlers   *)
(* (bot/handlers.py).  Every await of a handler is a step of its own, so   *)
(* handlers interleave exactly where the event loop lets them.             *)
(***************************************************************************)
EXTENDS Integers, Sequences, FiniteSets, Bags, TLC

\* ---------------------------------------------------------------- bounds
MaxRequests == 2          \* audio messages that are enqueued
MaxCallbacks == 2         \* callback queries that are dispatched

Fingerprints == {"F1", "F2"}       \* message.audio.file_unique_id
Users == {"U1", "U2"}              \* from_user.id
Sizes == {"small", "big"}          \* message.audio.file_size against 20 MB

Requests == 1..MaxRequests
Callbacks == 1..MaxCallbacks

VARIABLES
    match,      \* table `match`: rows (fp, file_id, owner, is_private, is_forbidden), id = index
    likes,      \* table of likes: bag of rows <<idc, user_id>>
    queue,      \* the task queue: ids of the jobs waiting, head first
    worker,     \* the queue's worker loop: "alive" or "dead"
    job,        \* one record per audio message that was enqueued
    cb          \* one record per callback query that was dispatched

vars == <<match, likes, queue, worker, job, cb>>

\* ------------------------------------------------------- program positions
\* A job is suspended at one of the awaits of slowing_down_task.
Running == {"get_match", "answer_cached", "download", "slow_down", "upload", "insert"}
Converting == {"download", "slow_down", "upload", "insert"}
Terminal == {"done", "failed", "faulted"}

NoJob ==
    [fp |-> "-", owner |-> "-", pc |-> "none", hit |-> FALSE, pos |-> 0,
     doneAtEnq |-> 0, from_db |-> 0, transforms |-> 0, got |-> 0,
     src |-> FALSE, out |-> FALSE, slowed |-> "none", notice |-> "none",
     ctl |-> "none", shown |-> TRUE]

NoRow == [idc |-> 0, file_id |-> 0, is_private |-> TRUE, is_forbidden |-> FALSE]

NoCallback ==
    [kind |-> "none", pc |-> "none", subj |-> 0, actor |-> "-", row |-> NoRow, liked |-> FALSE,
     alerted |-> FALSE]

\* A callback query whose handler has returned (or raised).
Returned == [NoCallback EXCEPT !.kind = "returned"]

Init ==
    /\ match = <<>>
    /\ likes = EmptyBag
    /\ queue = <<>>
    /\ worker = "alive"
    /\ job = [r \in Requests |-> NoJob]
    /\ cb = [h \in Callbacks |-> NoCallback]

\* ------------------------------------------------------------- the store
\* db.get_match(file_unique_id): the id of the row of that fingerprint, 0 when absent.
GetMatch(fp) ==
    IF \E i \in 1..Len(match) : match[i].fp = fp
    THEN CHOOSE i \in 1..Len(match) :
            /\ match[i].fp = fp
            /\ \A k \in 1..Len(match) : match[k].fp = fp => i <= k
    ELSE 0

\* db.get_by_pk("match", idc): the id when the row exists, 0 when absent.
GetByPk(idc) == IF idc \in 1..Len(match) THEN idc ELSE 0

\* The row as the handlers unpack it.
RowOf(i) ==
    [idc |-> i, file_id |-> match[i].file_id, is_private |-> match[i].is_private,
     is_forbidden |-> match[i].is_forbidden]

\* db.is_liked(idc, user_id)
IsLiked(idc, user) == BagIn(<<idc, user>>, likes)

\* ------------------------------------------------------------- the queue
NumRunning == Cardinality({r \in Requests : job[r].pc \in Running})
NumTerminal == Cardinality({r \in Requests : job[r].pc \in Terminal})

\* queue.size: the jobs waiting plus the one in flight.
QueueSize(q) == Len(q) + NumRunning

\* queue.enqueue(task, message): the job joins the tail of the queue.
Enqueue(q, r) == Append(q, r)

\* The worker loop takes the head job when no job is in flight.
WorkerTake ==
    /\ worker = "alive"
    /\ queue # <<>>
    /\ NumRunning = 0
    /\ job' = [job EXCEPT ![Head(queue)].pc = "get_match"]
    /\ queue' = Tail(queue)
    /\ UNCHANGED <<match, likes, worker, cb>>

\* A worker loop that ends with the fault it did not catch.
WorkerStopsAtFault(w) == "dead"

\* What the worker loop is after a job let a fault escape: it catches the fault,
\* logs it and goes on with the next job.
WorkerAfterFault(w) == w

\* ------------------------------------------------------ processing_audio
\* The position told without counting the request itself.
ReportedPositionAhead(size) == IF size > 1 THEN size - 1 ELSE 0

\* The position the requester is told: queue.size, and only when it is above 1
\* (0 stands for no reply).
ReportedPosition(size) == IF size > 1 THEN size ELSE 0

\* The id of the next audio message that is enqueued: messages are numbered in
\* the order processing_audio enqueues them.
NextRequest == CHOOSE r \in Requests : job[r].pc = "none" /\ \A k \in 1..(r - 1) : job[k].pc # "none"

\* processing_audio awaiting the task itself instead of enqueueing it.
ProcessingAudioRunsTask(f, u, sz) ==
    /\ sz = "small"
    /\ \E r \in Requests : job[r].pc = "none"
    /\ job' = [job EXCEPT ![NextRequest] =
                 [NoJob EXCEPT !.fp = f, !.owner = u, !.pc = "get_match",
                               !.hit = (GetMatch(f) # 0), !.doneAtEnq = NumTerminal]]
    /\ UNCHANGED <<match, likes, queue, worker, cb>>

\* processing_audio answering without putting the task on the queue.
ProcessingAudioForgets(f, u, sz) ==
    /\ sz = "small"
    /\ \E r \in Requests : job[r].pc = "none"
    /\ job' = [job EXCEPT ![NextRequest] =
                 [NoJob EXCEPT !.fp = f, !.owner = u, !.pc = "queued",
                               !.hit = (GetMatch(f) # 0), !.doneAtEnq = NumTerminal]]
    /\ UNCHANGED <<match, likes, queue, worker, cb>>

\* processing_audio: a file above 20 MB raises FileIsTooBig; any other audio is
\* enqueued and, when others are ahead, the requester is told the position.
ProcessingAudio(f, u, sz) ==
    IF sz = "big"
    THEN \* raise FileIsTooBig: nothing is enqueued
         UNCHANGED vars
    ELSE /\ \E r \in Requests : job[r].pc = "none"
         /\ LET r == NextRequest
                q == Enqueue(queue, r)
            IN /\ queue' = q
               /\ job' = [job EXCEPT ![r] =
                            [NoJob EXCEPT !.fp = f, !.owner = u, !.pc = "queued",
                                          !.hit = (GetMatch(f) # 0),
                                          !.doneAtEnq = NumTerminal,
                                          !.pos = ReportedPosition(QueueSize(q))]]
         /\ UNCHANGED <<match, likes, worker, cb>>

\* ----------------------------------------------------- slowing_down_task
\* The finally clause: the downloaded source is closed and removed.
Cleanup(j) == [j EXCEPT !.src = FALSE]

\* The job returns True / returns False / lets an exception escape to the worker.
Finish(r, j, how) ==
    /\ job' = [job EXCEPT ![r] = [j EXCEPT !.pc = how]]
    /\ worker' = IF how = "faulted" THEN WorkerAfterFault(worker) ELSE worker

\* A cache check that never finds the row.
LookupMiss(fp) == 0

\* The cache check at the head of the task: the row of the fingerprint, 0 when
\* the audio was not slowed down before.
Lookup(fp) == GetMatch(fp)

\* A task that ends on an empty slowed_down without a word to the requester.
DecodeIssueSilent(j) == j

\* message.reply("I have some issues with decoding your audio file ...")
DecodeIssue(j) == [j EXCEPT !.notice = "decode"]

\* The except TelegramAPIError branch: message.reply("I'm sorry ...")
Sorry(j) == [j EXCEPT !.notice = "sorry"]

\* A task that goes on to convert whatever the cache check returned.
JobGetMatchConverts(r) ==
    /\ job[r].pc = "get_match"
    /\ job' = [job EXCEPT ![r].pc = "download"]
    /\ UNCHANGED <<match, likes, queue, worker, cb>>

JobGetMatch(r) ==
    /\ job[r].pc = "get_match"
    /\ LET i == Lookup(job[r].fp)
       IN job' = [job EXCEPT ![r] =
                    IF i # 0
                    THEN [@ EXCEPT !.pc = "answer_cached", !.from_db = match[i].file_id]
                    ELSE [@ EXCEPT !.pc = "download"]]
    /\ UNCHANGED <<match, likes, queue, worker, cb>>

\* A cache hit answered with a reference of its own instead of the stored one.
JobAnswerCachedOwnRef(r) ==
    /\ job[r].pc = "answer_cached"
    /\ Finish(r, [job[r] EXCEPT !.got = r], "done")
    /\ UNCHANGED <<match, likes, queue, cb>>

\* answer_audio(from_db[2]) stands outside the try: a transport error escapes.
JobAnswerCached(r) ==
    /\ job[r].pc = "answer_cached"
    /\ \E o \in {"ok", "api_error"} :
         IF o = "ok"
         THEN Finish(r, [job[r] EXCEPT !.got = job[r].from_db], "done")
         ELSE Finish(r, job[r], "faulted")
    /\ UNCHANGED <<match, likes, queue, cb>>

\* reply + answer_chat_action (outside the try), then audio.download (inside).
JobDownload(r) ==
    /\ job[r].pc = "download"
    /\ \E o \in {"ok", "api_error", "fault"} :
         CASE o = "ok" -> /\ job' = [job EXCEPT ![r].pc = "slow_down", ![r].src = TRUE]
                          /\ UNCHANGED worker
           [] o = "api_error" -> Finish(r, Cleanup(Sorry(job[r])), "failed")
           [] o = "fault" -> Finish(r, Cleanup(job[r]), "faulted")
    /\ UNCHANGED <<match, likes, queue, cb>>

\* asyncio.to_thread(audio.slow_down, ...): slowed_down is the converted file's
\* path, or "" on a PydubException (then the decode notice and return False);
\* any other exception escapes.
JobSlowDown(r) ==
    /\ job[r].pc = "slow_down"
    /\ LET j == [job[r] EXCEPT !.transforms = @ + 1]
       IN \E o \in {"ok", "pydub", "fault"} :
            CASE o = "ok" -> /\ job' = [job EXCEPT ![r] =
                                          [j EXCEPT !.pc = "upload", !.out = TRUE,
                                                    !.slowed = "path"]]
                             /\ UNCHANGED worker
              [] o = "pydub" ->
                   Finish(r, Cleanup(DecodeIssue([j EXCEPT !.slowed = "empty"])), "failed")
              [] o = "fault" -> Finish(r, Cleanup(j), "faulted")
    /\ UNCHANGED <<match, likes, queue, cb>>

\* An upload whose Share button shows "public".
UploadedPublic(j, r) ==
    [j EXCEPT !.pc = "insert", !.got = r, !.out = FALSE, !.ctl = "share", !.shown = FALSE]

\* The audio is delivered with share_button(file_unique_id, True) and the
\* converted file is removed.  The uploaded audio's file_id is named after the
\* request that uploaded it.
Uploaded(j, r) ==
    [j EXCEPT !.pc = "insert", !.got = r, !.out = FALSE, !.ctl = "share", !.shown = TRUE]

\* answer_chat_action + answer_audio with the Share button, then os.remove(slowed_down).
JobUpload(r) ==
    /\ job[r].pc = "upload"
    /\ \E o \in {"ok", "api_error", "fault"} :
         CASE o = "ok" -> /\ job' = [job EXCEPT ![r] = Uploaded(@, r)]
                          /\ UNCHANGED worker
           [] o = "api_error" -> Finish(r, Cleanup(Sorry(job[r])), "failed")
           [] o = "fault" -> Finish(r, Cleanup(job[r]), "faulted")
    /\ UNCHANGED <<match, likes, queue, cb>>

\* db.insert_match(file_unique_id, file_id, user_id): a new private, not forbidden row.
InsertMatch(fp, file_id, owner) ==
    Append(match, [fp |-> fp, file_id |-> file_id, owner |-> owner,
                   is_private |-> TRUE, is_forbidden |-> FALSE,
                   toggles |-> 0])

JobInsert(r) ==
    /\ job[r].pc = "insert"
    /\ \E o \in {"ok", "db_error"} :
         IF o = "ok" /\ GetMatch(job[r].fp) = 0
         THEN /\ match' = InsertMatch(job[r].fp, job[r].got, job[r].owner)
              /\ Finish(r, Cleanup(job[r]), "done")
         ELSE /\ UNCHANGED match
              /\ Finish(r, Cleanup(job[r]), "faulted")
    /\ UNCHANGED <<likes, queue, cb>>

Conversion ==
    \/ \E f \in Fingerprints, u \in Users, sz \in Sizes : ProcessingAudio(f, u, sz)
    \/ WorkerTake
    \/ \E r \in Requests : JobGetMatch(r)
    \/ \E r \in Requests : JobAnswerCached(r)
    \/ \E r \in Requests : JobDownload(r)
    \/ \E r \in Requests : JobSlowDown(r)
    \/ \E r \in Requests : JobUpload(r)
    \/ \E r \in Requests : JobInsert(r)

\* ------------------------------------------------- share callback handlers
\* A free slot for the next callback query the dispatcher hands to a handler.
FreeSlot(h) == cb[h].kind = "none" /\ \A k \in 1..(h - 1) : cb[k].kind # "none"

At(h, kind, pc) == cb[h].kind = kind /\ cb[h].pc = pc

\* share_confirmation: answer, then the message's Share button becomes the
\* yes / no / help buttons.
ShareConfirmation(r) ==
    /\ job[r].ctl = "share"
    /\ job' = [job EXCEPT ![r].ctl = "confirm"]
    /\ UNCHANGED <<match, likes, queue, worker, cb>>

\* share_confiramtion_no: the Share button comes back with the is_private the
\* callback data carries; the store is not read.
ShareConfirmationNo(r) ==
    /\ job[r].ctl = "confirm"
    /\ job' = [job EXCEPT ![r].ctl = "share"]
    /\ UNCHANGED <<match, likes, queue, worker, cb>>

\* Whether share_confiramtion_yes turns the request down for the row it read.
ShareRefused(row) == row.is_forbidden

\* A handler that writes back the value it read.
ShareSameValue(row) == row.is_private

\* The value share_confiramtion_yes writes and renders for the row it read.
ShareNewValue(row) == ~row.is_private

\* db.toggle_private(idc, value); toggles counts the writes (modulo 2).
TogglePrivate(idc, value) ==
    [match EXCEPT ![idc].is_private = value, ![idc].toggles = 1 - @]

\* A user presses "yes" on the confirm buttons of job r's message: the handler
\* starts and awaits db.get_match(file_id).
ShareYesPress(h, r, u) ==
    /\ FreeSlot(h)
    /\ job[r].ctl = "confirm"
    /\ cb' = [cb EXCEPT ![h] = [NoCallback EXCEPT !.kind = "share_yes", !.pc = "get_match",
                                                  !.subj = r, !.actor = u]]
    /\ UNCHANGED <<match, likes, queue, worker, job>>

\* db.get_match returns: no row, a forbidden row, or a row to toggle.
ShareYesRead(h) ==
    /\ At(h, "share_yes", "get_match")
    /\ LET i == GetMatch(job[cb[h].subj].fp)
       IN cb' = [cb EXCEPT ![h] =
                   IF i = 0 THEN [@ EXCEPT !.pc = "alert_not_found"]
                   ELSE IF ShareRefused(RowOf(i))
                        THEN [@ EXCEPT !.pc = "alert_forbidden", !.row = RowOf(i)]
                        ELSE [@ EXCEPT !.pc = "toggle_private", !.row = RowOf(i)]]
    /\ UNCHANGED <<match, likes, queue, worker, job>>

\* await db.toggle_private(idc, not is_private)
ShareYesWrite(h) ==
    /\ At(h, "share_yes", "toggle_private")
    /\ match' = TogglePrivate(cb[h].row.idc, ShareNewValue(cb[h].row))
    /\ cb' = [cb EXCEPT ![h].pc = "edit_reply_markup"]
    /\ UNCHANGED <<likes, queue, worker, job>>

\* await edit_reply_markup(share_button(file_id, not is_private)), then
\* query.answer("Done!") and the handler returns.
ShareYesRender(h) ==
    /\ At(h, "share_yes", "edit_reply_markup")
    /\ job' = [job EXCEPT ![cb[h].subj].ctl = "share",
                          ![cb[h].subj].shown = ShareNewValue(cb[h].row)]
    /\ cb' = [cb EXCEPT ![h] = Returned]
    /\ UNCHANGED <<match, likes, queue, worker>>

\* The alert the handler answers with: "Forbidden to share" and it returns, or
\* "Something went wrong" and it goes on to raise the Exception.
ShareYesAlert(h) ==
    /\ cb[h].kind = "share_yes"
    /\ cb[h].pc \in {"alert_forbidden", "alert_not_found"}
    /\ cb' = [cb EXCEPT ![h] =
                IF cb[h].pc = "alert_forbidden" THEN Returned
                ELSE [@ EXCEPT !.pc = "raise", !.alerted = TRUE]]
    /\ UNCHANGED <<match, likes, queue, worker, job>>

Share ==
    \/ \E r \in Requests : ShareConfirmation(r)
    \/ \E r \in Requests : ShareConfirmationNo(r)
    \/ \E h \in Callbacks, r \in Requests, u \in Users : ShareYesPress(h, r, u)
    \/ \E h \in Callbacks : ShareYesRead(h)
    \/ \E h \in Callbacks : ShareYesWrite(h)
    \/ \E h \in Callbacks : ShareYesRender(h)
    \/ \E h \in Callbacks : ShareYesAlert(h)

\* ---------------------------------------- report and like callback handlers
\* The match ids a Report or Like callback can carry: those of the rows of the
\* table, and one that is in no row.
MatchIds == 1..(Len(match) + 1)

\* A handler without the check of is_forbidden.
ReportNeverRefused(row) == FALSE

\* Whether report_confiramtion_yes turns the report down for the row it read.
ReportRefused(row) == row.is_forbidden

\* A user presses "yes" on the report confirm buttons of match idc: the handler
\* starts and awaits db.get_by_pk("match", idc).  The reporter only shows in the
\* log, in the caption sent to the admin and in the buttons rendered at the end.
ReportYesPress(h, idc, u) ==
    /\ FreeSlot(h)
    /\ cb' = [cb EXCEPT ![h] = [NoCallback EXCEPT !.kind = "report_yes", !.pc = "get_by_pk",
                                                  !.subj = idc]]
    /\ UNCHANGED <<match, likes, queue, worker, job>>

\* db.get_by_pk returns: no row (the ValueError is raised next), a forbidden
\* row, or a row to report.
ReportYesRead(h) ==
    /\ At(h, "report_yes", "get_by_pk")
    /\ LET i == GetByPk(cb[h].subj)
       IN cb' = [cb EXCEPT ![h] =
                   IF i = 0 THEN [@ EXCEPT !.pc = "raise"]
                   ELSE IF ReportRefused(RowOf(i))
                        THEN [@ EXCEPT !.pc = "alert_forbidden", !.row = RowOf(i)]
                        ELSE [@ EXCEPT !.pc = "send_audio", !.row = RowOf(i)]]
    /\ UNCHANGED <<match, likes, queue, worker, job>>

\* A report that forbids the audio by itself.
ReportedForbids(row) == [row EXCEPT !.is_forbidden = TRUE]

\* What a delivered report does to the reported row: nothing, the handler only
\* tells the admin.
Reported(row) == row

\* await bot.send_audio(ADMIN_ID, file_id, ...): delivered, or a TelegramAPIError
\* that is logged and falls through to the ValueError.
ReportYesSend(h) ==
    /\ At(h, "report_yes", "send_audio")
    /\ \E o \in {"ok", "api_error"} :
         IF o = "ok"
         THEN /\ cb' = [cb EXCEPT ![h].pc = "edit_reply_markup"]
              /\ match' = [match EXCEPT ![cb[h].row.idc] = Reported(@)]
         ELSE /\ cb' = [cb EXCEPT ![h].pc = "raise"]
              /\ UNCHANGED match
    /\ UNCHANGED <<likes, queue, worker, job>>

\* await db.is_liked, await edit_reply_markup(random_buttons(idc, is_liked)),
\* then the thanks and the handler returns.
ReportYesRender(h) ==
    /\ At(h, "report_yes", "edit_reply_markup")
    /\ cb' = [cb EXCEPT ![h] = Returned]
    /\ UNCHANGED <<match, likes, queue, worker, job>>

\* The "already forbidden" alert the handler answers with before it ends.
ReportYesAlert(h) ==
    /\ At(h, "report_yes", "alert_forbidden")
    /\ cb' = [cb EXCEPT ![h] = Returned]
    /\ UNCHANGED <<match, likes, queue, worker, job>>

\* The handler raises ("Can't find match ..." / "Can't find row ..."): the
\* dispatcher hands the exception to global_error_handler, which logs it and
\* fails at update.message.reply, a callback query update having no message.
\* Nothing reaches the user, and the dispatcher goes on with the next update.
HandlerRaise(h) ==
    /\ cb[h].kind \in {"share_yes", "report_yes"}
    /\ cb[h].pc = "raise"
    /\ cb' = [cb EXCEPT ![h] = Returned]
    /\ UNCHANGED <<match, likes, queue, worker, job>>

\* A table that takes a second row for a pair that has one.
ToggleLikeInsertsAgain(value, idc, user) ==
    IF value
    THEN likes (+) SetToBag({<<idc, user>>})
    ELSE [p \in BagToSet(likes) \ {<<idc, user>>} |-> likes[p]]

\* db.toggle_like(value, idc, user_id): the like of the pair is set or removed;
\* adding one that is there and removing one that is not change nothing.
ToggleLike(value, idc, user) ==
    IF value
    THEN IF IsLiked(idc, user) THEN likes ELSE likes (+) SetToBag({<<idc, user>>})
    ELSE [p \in BagToSet(likes) \ {<<idc, user>>} |-> likes[p]]

\* toggle_like: the handler starts and awaits db.is_liked(idc, user_id).
ToggleLikePress(h, idc, u) ==
    /\ FreeSlot(h)
    /\ cb' = [cb EXCEPT ![h] = [NoCallback EXCEPT !.kind = "toggle_like", !.pc = "is_liked",
                                                  !.subj = idc, !.actor = u]]
    /\ UNCHANGED <<match, likes, queue, worker, job>>

ToggleLikeRead(h) ==
    /\ At(h, "toggle_like", "is_liked")
    /\ cb' = [cb EXCEPT ![h].pc = "toggle_like", ![h].liked = IsLiked(cb[h].subj, cb[h].actor)]
    /\ UNCHANGED <<match, likes, queue, worker, job>>

\* A handler that writes back the like state it read.
LikeSameValue(is_liked) == is_liked

\* The like state toggle_like writes and renders for the state it read.
LikeNewValue(is_liked) == ~is_liked

\* await db.toggle_like(not is_liked, idc, user_id)
ToggleLikeWrite(h) ==
    /\ At(h, "toggle_like", "toggle_like")
    /\ likes' = ToggleLike(LikeNewValue(cb[h].liked), cb[h].subj, cb[h].actor)
    /\ cb' = [cb EXCEPT ![h].pc = "edit_reply_markup"]
    /\ UNCHANGED <<match, queue, worker, job>>

\* await edit_reply_markup(random_buttons(idc, is_like=not is_liked)), then
\* the answer and the handler returns.
ToggleLikeRender(h) ==
    /\ At(h, "toggle_like", "edit_reply_markup")
    /\ cb' = [cb EXCEPT ![h] = Returned]
    /\ UNCHANGED <<match, likes, queue, worker, job>>

\* The moderation action outside these handlers: the admin forbids a match.
Moderate(idc) ==
    /\ idc \in 1..Len(match)
    /\ ~match[idc].is_forbidden
    /\ match' = [match EXCEPT ![idc].is_forbidden = TRUE]
    /\ UNCHANGED <<likes, queue, worker, job, cb>>

ReportAndLike ==
    \/ \E h \in Callbacks, i \in MatchIds, u \in Users : ReportYesPress(h, i, u)
    \/ \E h \in Callbacks : ReportYesRead(h)
    \/ \E h \in Callbacks : ReportYesSend(h)
    \/ \E h \in Callbacks : ReportYesRender(h)
    \/ \E h \in Callbacks : ReportYesAlert(h)
    \/ \E h \in Callbacks : HandlerRaise(h)
    \/ \E h \in Callbacks, i \in MatchIds, u \in Users : ToggleLikePress(h, i, u)
    \/ \E h \in Callbacks : ToggleLikeRead(h)
    \/ \E h \in Callbacks : ToggleLikeWrite(h)
    \/ \E h \in Callbacks : ToggleLikeRender(h)
    \/ \E i \in MatchIds : Moderate(i)

\* The specification with the callback handlers starts where the first audio
\* message (F1, sent by U1) has been slowed down, delivered and stored, and
\* follows one more audio message next to the callback handlers.
FirstJob ==
    [NoJob EXCEPT !.fp = "F1", !.owner = "U1", !.pc = "done", !.transforms = 1,
                  !.got = 1, !.slowed = "path", !.ctl = "share"]

SocialInit ==
    /\ match = <<[fp |-> "F1", file_id |-> 1, owner |-> "U1", is_private |-> TRUE,
                  is_forbidden |-> FALSE, toggles |-> 0]>>
    /\ likes = EmptyBag
    /\ queue = <<>>
    /\ worker = "alive"
    /\ job = [r \in Requests |-> IF r = 1 THEN FirstJob ELSE NoJob]
    /\ cb = [h \in Callbacks |-> NoCallback]

SocialMessages == {2}

SocialAudio(f, u) ==
    /\ \E r \in SocialMessages : job[r].pc = "none"
    /\ ProcessingAudio(f, u, "small")

\* The callback handlers next to a conversion: one more audio message, sent by
\* U2, is converted while U2 presses the buttons.
FullUsers == {"U2"}

FullNext ==
    \/ \E f \in Fingerprints, u \in FullUsers : SocialAudio(f, u)
    \/ WorkerTake
    \/ \E r \in Requests : JobGetMatch(r)
    \/ \E r \in Requests : JobAnswerCached(r)
    \/ \E r \in Requests : JobDownload(r)
    \/ \E r \in Requests : JobSlowDown(r)
    \/ \E r \in Requests : JobUpload(r)
    \/ \E r \in Requests : JobInsert(r)
    \/ \E r \in Requests : ShareConfirmation(r)
    \/ \E r \in Requests : ShareConfirmationNo(r)
    \/ \E h \in Callbacks, r \in Requests, u \in FullUsers : ShareYesPress(h, r, u)
    \/ \E h \in Callbacks : ShareYesRead(h)
    \/ \E h \in Callbacks : ShareYesWrite(h)
    \/ \E h \in Callbacks : ShareYesRender(h)
    \/ \E h \in Callbacks : ShareYesAlert(h)
    \/ \E h \in Callbacks, i \in MatchIds, u \in FullUsers : ReportYesPress(h, i, u)
    \/ \E h \in Callbacks : ReportYesRead(h)
    \/ \E h \in Callbacks : ReportYesSend(h)
    \/ \E h \in Callbacks : ReportYesRender(h)
    \/ \E h \in Callbacks : ReportYesAlert(h)
    \/ \E h \in Callbacks : HandlerRaise(h)
    \/ \E h \in Callbacks, i \in MatchIds, u \in FullUsers : ToggleLikePress(h, i, u)
    \/ \E h \in Callbacks : ToggleLikeRead(h)
    \/ \E h \in Callbacks : ToggleLikeWrite(h)
    \/ \E h \in Callbacks : ToggleLikeRender(h)
    \/ \E i \in MatchIds : Moderate(i)

Next == Conversion

Spec == Init /\ [][Next]_vars

\* The step of the job in flight: the await it is suspended at returns.
JobStep ==
    \E r \in Requests :
        \/ JobGetMatch(r) \/ JobAnswerCached(r) \/ JobDownload(r)
        \/ JobSlowDown(r) \/ JobUpload(r) \/ JobInsert(r)

\* The event loop runs every task that is ready: the worker loop takes the
\* head job once it can, and an external call that returns resumes its job.
FairSpec == Spec /\ WF_vars(WorkerTake) /\ WF_vars(JobStep)

SocialNext == Share \/ ReportAndLike

SocialSpec == SocialInit /\ [][SocialNext]_vars

FullSpec == SocialInit /\ [][FullNext]_vars

\* Callback queries processed one after the other: a handler starts only when
\* no other handler is suspended at an await.
Idle == \A h \in Callbacks : cb[h].kind \in {"none", "returned"}

SeqNext ==
    \/ \E r \in Requests : Idle /\ ShareConfirmation(r)
    \/ \E r \in Requests : Idle /\ ShareConfirmationNo(r)
    \/ \E h \in Callbacks, r \in Requests, u \in Users : Idle /\ ShareYesPress(h, r, u)
    \/ \E h \in Callbacks : ShareYesRead(h)
    \/ \E h \in Callbacks : ShareYesWrite(h)
    \/ \E h \in Callbacks : ShareYesRender(h)
    \/ \E h \in Callbacks : ShareYesAlert(h)
    \/ \E h \in Callbacks, i \in MatchIds, u \in Users : Idle /\ ReportYesPress(h, i, u)
    \/ \E h \in Callbacks : ReportYesRead(h)
    \/ \E h \in Callbacks : ReportYesSend(h)
    \/ \E h \in Callbacks : ReportYesRender(h)
    \/ \E h \in Callbacks : ReportYesAlert(h)
    \/ \E h \in Callbacks : HandlerRaise(h)
    \/ \E h \in Callbacks, i \in MatchIds, u \in Users : Idle /\ ToggleLikePress(h, i, u)
    \/ \E h \in Callbacks : ToggleLikeRead(h)
    \/ \E h \in Callbacks : ToggleLikeWrite(h)
    \/ \E h \in Callbacks : ToggleLikeRender(h)
    \/ \E i \in MatchIds : Idle /\ Moderate(i)

SeqSpec == SocialInit /\ [][SeqNext]_vars

\* ======================================================== the claims
\* Request b was submitted before request a, of the same fingerprint, had completed.
Overlap(a, b) ==
    /\ a < b
    /\ job[b].pc # "none"
    /\ job[a].fp = job[b].fp
    /\ job[b].doneAtEnq < a

C3_OneRecordPerFingerprint ==
    /\ \A i, k \in 1..Len(match) : match[i].fp = match[k].fp => i = k
    /\ \A r \in Requests : job[r].pc \in Converting => GetMatch(job[r].fp) = 0
    /\ \A r \in Requests : job[r].pc = "answer_cached" => GetMatch(job[r].fp) # 0

C3_Witness ==
    \E a, b \in Requests :
        /\ a # b /\ job[a].fp = job[b].fp
        /\ job[a].pc = "done" /\ job[b].pc = "done"
        /\ Len(match) = 1

\* C4: jobs run one at a time and in the order they were enqueued: a job has
\* started only when every job enqueued before it has finished.
C4_OneAtATimeInOrder ==
    /\ NumRunning <= 1
    /\ \A r \in Requests :
          job[r].pc \in Running \cup Terminal =>
              \A k \in 1..(r - 1) : job[k].pc \in Terminal
    /\ \A i \in 1..Len(queue) :
          /\ job[queue[i]].pc = "queued"
          /\ \A k \in 1..(i - 1) : queue[k] < queue[i]

C4_Witness ==
    \E a, b \in Requests :
        /\ a < b /\ job[b].doneAtEnq < a
        /\ job[a].pc \in Terminal /\ job[b].pc \in Running

\* C5: the position a requester is told is the number of jobs ahead of and
\* including the request when it was enqueued, the job in flight included: k
\* minus the jobs completed by then, for the k-th request (told only when it is
\* above 1).
C5_ReportedPosition ==
    \A r \in Requests :
        job[r].pc # "none" =>
            LET k == r - job[r].doneAtEnq
            IN job[r].pos = IF k > 1 THEN k ELSE 0

C5_Witness == \E r \in Requests : job[r].pos = 2 /\ job[r].pc \in Terminal

\* C6: a job that lets any fault escape fails alone: the worker loop goes on,
\* and takes the next job whenever one waits and none is in flight.
C6_FaultDoesNotStopWorker ==
    /\ (\E r \in Requests : job[r].pc = "faulted") => worker = "alive"
    /\ (queue # <<>> /\ NumRunning = 0) => ENABLED WorkerTake

C6_Witness ==
    \E a, b \in Requests :
        /\ a < b /\ job[b].doneAtEnq < a
        /\ job[a].pc = "faulted" /\ job[a].transforms = 1
        /\ job[b].pc = "done"

\* C7 (as stated): concurrent Share "yes" handlers on one record lose no update:
\* once they have all returned, is_private is what the toggles applied one
\* after the other give, the created value (private) after an even number.
C7_NoLostUpdate ==
    (\A h \in Callbacks : cb[h].kind # "share_yes") =>
        \A i \in 1..Len(match) : match[i].is_private = (match[i].toggles = 0)

\* C8 (as stated): a Share "yes" whose record exists always goes on to flip
\* is_private, with no other precondition.
C8_AlwaysToggles ==
    \A h \in Callbacks :
        (cb[h].kind = "share_yes" /\ cb[h].row.idc # 0) =>
            cb[h].pc \in {"toggle_private", "edit_reply_markup"}

\* C8 (amended): a Share "yes" whose record exists and is not forbidden, whoever
\* presses it, writes the negation of the is_private it read and renders that
\* value on the Share button; on a forbidden record it answers with an alert
\* and leaves the record and the button alone.
C8_ShareYesToggles ==
    [][\A h \in Callbacks :
          LET i == GetMatch(job[cb[h].subj].fp)
              idc == cb[h].row.idc
          IN /\ (At(h, "share_yes", "get_match") /\ cb'[h] # cb[h] /\ i # 0) =>
                   /\ cb'[h].row = RowOf(i)
                   /\ cb'[h].pc = IF match[i].is_forbidden THEN "alert_forbidden"
                                                          ELSE "toggle_private"
                   /\ UNCHANGED <<match, job>>
             /\ (At(h, "share_yes", "toggle_private") /\ cb'[h] # cb[h]) =>
                   /\ match'[idc].is_private = ~cb[h].row.is_private
                   /\ cb'[h].pc = "edit_reply_markup"
             /\ (At(h, "share_yes", "edit_reply_markup") /\ cb'[h] # cb[h]) =>
                   /\ job'[cb[h].subj].shown = ~cb[h].row.is_private
                   /\ job'[cb[h].subj].ctl = "share"
                   /\ UNCHANGED match
             /\ (At(h, "share_yes", "alert_forbidden") /\ cb'[h] # cb[h]) =>
                   UNCHANGED <<match, job>>
      ]_vars

C8_Witness ==
    \E h \in Callbacks :
        /\ At(h, "share_yes", "edit_reply_markup")
        /\ cb[h].actor # match[cb[h].row.idc].owner
        /\ cb[h].row.is_private
        /\ ~match[cb[h].row.idc].is_private

\* C9: a Report "yes" that reads a forbidden record only answers with the alert:
\* it never sends the audio to the admin and changes nothing in the store.
C9_ForbiddenReportShortCircuits ==
    /\ [](\A h \in Callbacks :
            (cb[h].kind = "report_yes" /\ cb[h].row.is_forbidden) =>
                cb[h].pc = "alert_forbidden")
    /\ [][\A h \in Callbacks :
            /\ (At(h, "report_yes", "get_by_pk") /\ cb'[h] # cb[h]
                  /\ GetByPk(cb[h].subj) # 0 /\ match[GetByPk(cb[h].subj)].is_forbidden) =>
                  /\ cb'[h].pc = "alert_forbidden"
                  /\ UNCHANGED <<match, likes, job>>
            /\ (At(h, "report_yes", "alert_forbidden") /\ cb'[h] # cb[h]) =>
                  /\ cb'[h] = Returned
                  /\ UNCHANGED <<match, likes, job>>
        ]_vars

C9_Witness ==
    \E h \in Callbacks :
        /\ At(h, "report_yes", "alert_forbidden")
        /\ match[cb[h].row.idc].is_forbidden

\* C10: is_forbidden of a record changes only by the moderation action, and only
\* from false to true: no step of a conversion, share, report or like handler
\* changes it, and a new record is not forbidden.
C10_ForbiddenOnlyByModeration ==
    [][/\ Len(match') >= Len(match)
       /\ \A i \in 1..Len(match) :
            /\ match[i].is_forbidden => match'[i].is_forbidden
            /\ match'[i].is_forbidden # match[i].is_forbidden => Moderate(i)
       /\ \A i \in (Len(match) + 1)..Len(match') : ~match'[i].is_forbidden
      ]_vars

C10_Witness ==
    /\ \E h \in Callbacks :
          /\ At(h, "report_yes", "edit_reply_markup")
          /\ ~match[cb[h].row.idc].is_forbidden
          /\ match[cb[h].row.idc].toggles = 1
    /\ \E r \in Requests : job[r].pc = "insert"

\* C11: the table of likes holds at most one row per (match id, user) pair,
\* however the toggle_like handlers interleave.
C11_LikeUniqueness == \A p \in BagToSet(likes) : CopiesIn(p, likes) = 1

\* Two presses by one user on one match, both handlers having read "not liked"
\* and both having written.
C11_Witness ==
    \E g, h \in Callbacks :
        /\ g # h
        /\ At(g, "toggle_like", "edit_reply_markup")
        /\ At(h, "toggle_like", "edit_reply_markup")
        /\ cb[g].subj = cb[h].subj /\ cb[g].actor = cb[h].actor
        /\ ~cb[g].liked /\ ~cb[h].liked
        /\ IsLiked(cb[h].subj, cb[h].actor)

\* C12: processed one after the other, a toggle_like reads the stored like state
\* and writes its negation, so the second of two presses by one user on one
\* match undoes the first: from not liked to liked (one row), and back to not
\* liked with no row left.
C12_LikeInvolution ==
    /\ [](\A h \in Callbacks :
            LET p == <<cb[h].subj, cb[h].actor>>
            IN /\ At(h, "toggle_like", "toggle_like") => cb[h].liked = BagIn(p, likes)
               /\ At(h, "toggle_like", "edit_reply_markup") =>
                     /\ BagIn(p, likes) = ~cb[h].liked
                     /\ CopiesIn(p, likes) = IF cb[h].liked THEN 0 ELSE 1
                     /\ (h = 2 /\ cb[h].liked) => likes = EmptyBag)
    /\ [][\A h \in Callbacks :
            LET p == <<cb[h].subj, cb[h].actor>>
            IN /\ (At(h, "toggle_like", "is_liked") /\ cb'[h] # cb[h]) =>
                     /\ cb'[h].liked = BagIn(p, likes)
                     /\ UNCHANGED likes
               /\ (At(h, "toggle_like", "toggle_like") /\ cb'[h] # cb[h]) =>
                     /\ BagIn(p, likes') = ~cb[h].liked
                     /\ \A q \in BagToSet(likes) \cup BagToSet(likes') :
                           q # p => CopiesIn(q, likes') = CopiesIn(q, likes)
        ]_vars

\* The second of two presses in a row has read "liked" and has written.
C12_Witness ==
    /\ cb[1] = Returned
    /\ At(2, "toggle_like", "edit_reply_markup")
    /\ cb[2].liked
    /\ likes = EmptyBag

\* C13 (as stated): a Report "yes" that read an existing, not forbidden record
\* re-renders the like / report buttons whether or not the audio reached the
\* admin, and never ends by raising the "can't find row" error: that error is
\* raised only by a handler that found no row.
C13_DeliveryFailureIsSoft ==
    \A h \in Callbacks :
        (cb[h].kind = "report_yes" /\ cb[h].pc = "raise") => cb[h].row.idc = 0

\* C14 (as stated): a Share "yes" or Report "yes" whose subject is in no row of
\* the store has answered the acting user with an alert by the time it raises.
C14_NotFoundAlerted ==
    \A h \in Callbacks :
        (cb[h].kind \in {"share_yes", "report_yes"} /\ cb[h].pc = "raise"
           /\ cb[h].row.idc = 0) => cb[h].alerted

\* C15: a job whose transform produced no output (slowed_down is empty) tells
\* the requester about the decoding issue, uploads nothing, creates no record,
\* and ends as failed: the step that meets the empty output leaves the store
\* alone, and no row ever carries a file of that job.
C15_TransformFailure ==
    /\ [](\A r \in Requests :
            job[r].slowed = "empty" =>
                /\ job[r].pc = "failed"
                /\ job[r].notice = "decode"
                /\ job[r].got = 0
                /\ job[r].ctl = "none"
                /\ \A i \in 1..Len(match) : match[i].file_id # r)
    /\ [][\A r \in Requests :
            (job[r].slowed # "empty" /\ job'[r].slowed = "empty") =>
                /\ job[r].pc = "slow_down"
                /\ GetMatch(job[r].fp) = 0
                /\ UNCHANGED match
        ]_vars

\* A transform failure, followed by another job that ran to its end.
C15_Witness ==
    \E a, b \in Requests :
        /\ job[a].slowed = "empty" /\ job[a].transforms = 1
        /\ a < b /\ job[b].pc = "done"

\* C16: every record was created by a job for its fingerprint whose transform
\* succeeded and whose upload was delivered; the record a job creates has the
\* requester as owner, is private and not forbidden, and the audio was
\* delivered with a Share button showing "private".
C16_RecordCreation ==
    /\ [](\A i \in 1..Len(match) :
            \E r \in Requests :
                /\ job[r].fp = match[i].fp
                /\ job[r].owner = match[i].owner
                /\ job[r].slowed = "path" /\ job[r].transforms = 1
                /\ job[r].got = r /\ match[i].file_id = r
                /\ job[r].pc = "done")
    /\ [][/\ Len(match') \in {Len(match), Len(match) + 1}
          /\ \A i \in (Len(match) + 1)..Len(match') :
                /\ match'[i].is_private /\ ~match'[i].is_forbidden
                /\ \E r \in Requests :
                      /\ job[r].pc = "insert" /\ job'[r].pc = "done"
                      /\ GetMatch(job[r].fp) = 0
                      /\ match'[i].fp = job[r].fp /\ match'[i].owner = job[r].owner
          /\ \A r \in Requests :
                (job[r].pc = "upload" /\ job'[r].pc = "insert") =>
                    /\ job[r].slowed = "path"
                    /\ job'[r].ctl = "share" /\ job'[r].shown
        ]_vars

\* Two fresh fingerprints, sent by two users, both converted and recorded.
C16_Witness ==
    /\ Len(match) = 2
    /\ match[1].owner # match[2].owner
    /\ \A i \in 1..2 : match[i].is_private /\ ~match[i].is_forbidden
    /\ \A r \in Requests : job[r].pc = "done" /\ job[r].ctl = "share" /\ job[r].shown

\* C17 (as stated): the Share button a Share "yes" re-renders, and the like
\* button a toggle_like re-renders, show the value the store holds at the time
\* of the rendering, whatever other handlers did in between; so with no handler
\* left in flight every Share button shows the is_private of its record.
C17_RendersStoredValue ==
    /\ [][\A h \in Callbacks :
            /\ (At(h, "share_yes", "edit_reply_markup") /\ cb'[h] # cb[h]) =>
                  job'[cb[h].subj].shown = match'[cb[h].row.idc].is_private
            /\ (At(h, "toggle_like", "edit_reply_markup") /\ cb'[h] # cb[h]) =>
                  LikeNewValue(cb[h].liked) = BagIn(<<cb[h].subj, cb[h].actor>>, likes')
        ]_vars
    /\ []((\A h \in Callbacks : cb[h].kind \in {"none", "returned"}) =>
            \A r \in Requests :
                (job[r].ctl = "share" /\ GetMatch(job[r].fp) # 0) =>
                    job[r].shown = match[GetMatch(job[r].fp)].is_private)

\* C18: every job that was enqueued is eventually taken by the worker and runs
\* to a terminal outcome; a waiting job stays in the queue until the worker
\* takes it, a job in flight only moves on to its end, and a finished job
\* stays finished.
C18_JobLiveness ==
    /\ \A r \in Requests : (job[r].pc = "queued") ~> (job[r].pc \in Terminal)
    /\ [](\A r \in Requests :
            job[r].pc = "queued" <=> \E i \in 1..Len(queue) : queue[i] = r)
    /\ [][\A r \in Requests :
            /\ job[r].pc = "queued" => job'[r].pc \in {"queued", "get_match"}
            /\ job[r].pc \in Running => job'[r].pc \in Running \cup Terminal
            /\ job[r].pc \in Terminal => job'[r].pc = job[r].pc
        ]_vars

\* Every request was enqueued before any job had finished, and all have run
\* to their end.
C18_Witness ==
    /\ queue = <<>>
    /\ \A r \in Requests : job[r].pc \in Terminal /\ job[r].doneAtEnq = 0

\* C19 (as stated): every Share button that was delivered belongs to a
\* fingerprint that has a record, so no Share "yes" ever finds its record
\* missing.
C19_NoDanglingShareControl ==
    /\ \A r \in Requests : job[r].ctl # "none" => GetMatch(job[r].fp) # 0
    /\ \A h \in Callbacks : ~At(h, "share_yes", "alert_not_found")

\* C20 (as stated): a job that has ended, by whatever path, has left neither
\* its downloaded file nor its converted file on disk.
C20_NoFilesLeft ==
    \A r \in Requests : job[r].pc \in Terminal => ~job[r].src /\ ~job[r].out

====
